---- MODULE Spec2Model ----
(***************************************************************************)
(* Model of mlbox/optimisation/optimiser.py: class Optimiser, its methods  *)
(* evaluate (pipeline assembly, caching decision, scorer resolution, class *)
(* filtering, cross-validation with its failure path) and optimise (space  *)
(* construction, the fmin loop, back-translation of the best vector).      *)
(*                                                                         *)
(* Python strings that the code inspects character-wise (parameter keys,   *)
(* stage tags) are sequences of one-character strings, so that startswith, *)
(* split and the lexicographic sort are computed, not assumed.             *)
(***************************************************************************)
EXTENDS Integers, Sequences, FiniteSets, TLC

(***************************************************************************)
(* Python string primitives                                                *)
(***************************************************************************)

\* ord(c), for the characters that occur in keys.
CodePoint ==
    [c \in {"0", "1", "2", "_", "a", "b", "c", "d", "e", "f", "g", "h", "k",
            "l", "m", "n", "o", "p", "r", "s", "t", "v", "x", "y"} |->
        CASE c = "0" -> 48 [] c = "1" -> 49 [] c = "2" -> 50 [] c = "_" -> 95
          [] c = "a" -> 97 [] c = "b" -> 98 [] c = "c" -> 99 [] c = "d" -> 100
          [] c = "e" -> 101 [] c = "f" -> 102 [] c = "g" -> 103 [] c = "h" -> 104
          [] c = "k" -> 107 [] c = "l" -> 108 [] c = "m" -> 109 [] c = "n" -> 110
          [] c = "o" -> 111 [] c = "p" -> 112 [] c = "r" -> 114 [] c = "s" -> 115
          [] c = "t" -> 116 [] c = "v" -> 118 [] c = "x" -> 120 [] c = "y" -> 121]

Ord(c) == CodePoint[c]

\* str.startswith
StartsWith(s, prefix) ==
    /\ Len(prefix) <= Len(s)
    /\ \A i \in 1..Len(prefix) : s[i] = prefix[i]

UU == <<"_", "_">>

Min(S) == CHOOSE x \in S : \A y \in S : x <= y

\* The position of the first "__" in s at or after i, 0 if there is none.
RECURSIVE Find(_, _)
Find(s, i) ==
    IF i >= Len(s) THEN 0
    ELSE IF s[i] = "_" /\ s[i + 1] = "_" THEN i
    ELSE Find(s, i + 1)

\* p.split("__")[0]: the text before the first "__", the whole string if none.
SplitHead(s) ==
    LET at == Find(s, 1)
    IN  IF at = 0 THEN s ELSE SubSeq(s, 1, at - 1)

\* Lexicographic order of Python / numpy unicode strings.
RECURSIVE StrLess(_, _)
StrLess(a, b) ==
    IF a = <<>> THEN b # <<>>
    ELSE IF b = <<>> THEN FALSE
    ELSE IF Ord(Head(a)) # Ord(Head(b)) THEN Ord(Head(a)) < Ord(Head(b))
    ELSE StrLess(Tail(a), Tail(b))

\* A mis-sort: the longest / greatest tag first.
RECURSIVE SortDescending(_)
SortDescending(S) ==
    IF S = {} THEN <<>>
    ELSE LET m == CHOOSE x \in S : \A y \in S : y = x \/ StrLess(y, x)
         IN  <<m>> \o SortDescending(S \ {m})

\* np.sort(list(STCK)): the tags in ascending lexicographic order.
RECURSIVE NpSort(_)
NpSort(S) ==
    IF S = {} THEN <<>>
    ELSE LET m == CHOOSE x \in S : \A y \in S : y = x \/ StrLess(x, y)
         IN  <<m>> \o NpSort(S \ {m})

(***************************************************************************)
(* Parameter keys and stage tags                                           *)
(***************************************************************************)

T_ne == <<"n", "e">>
T_ce == <<"c", "e">>
T_fs == <<"f", "s">>
T_est == <<"e", "s", "t">>
T_stck == <<"s", "t", "c", "k">>
T_stck1 == T_stck \o <<"1">>
T_stck2 == T_stck \o <<"2">>
T_stck10 == T_stck \o <<"1", "0">>
T_xgb == <<"x", "g", "b">>

P_strategy == <<"s", "t", "r", "a", "t", "e", "g", "y">>
P_threshold == <<"t", "h", "r", "e", "s", "h", "o", "l", "d">>
P_max_depth == <<"m", "a", "x", "_", "d", "e", "p", "t", "h">>
P_copy == <<"c", "o", "p", "y">>
P_level == <<"l", "e", "v", "e", "l">>

Key(tag, param) == tag \o UU \o param

K_ce_strategy == Key(T_ce, P_strategy)
K_fs_strategy == Key(T_fs, P_strategy)
K_fs_threshold == Key(T_fs, P_threshold)
K_est_max_depth == Key(T_est, P_max_depth)
K_stck1_copy == Key(T_stck1, P_copy)
K_stck1_level == Key(T_stck1, P_level)
K_stck2_copy == Key(T_stck2, P_copy)
K_stck10_copy == Key(T_stck10, P_copy)
K_xgb_max_depth == Key(T_xgb, P_max_depth)
\* "fs_threshold": one underscore only, so neither "fs__*" nor a nested key.
K_fs_threshold_1 == T_fs \o <<"_">> \o P_threshold
\* "stck": starts with "stck" and holds no "__".
K_stck == T_stck

\* A candidate is None or a dict; kv is the dict (empty for None).
NoneParams == [none |-> TRUE, kv |-> <<>>]
Dict(f) == [none |-> FALSE, kv |-> f]

(***************************************************************************)
(* evaluate: task, class filter, stages, scorer (lines 159-296)            *)
(***************************************************************************)

\* A task inference that takes every non-integer target for continuous.
TaskLoose(dtype) == IF dtype = "int" THEN "Classification" ELSE "Regression"

\* Lines 172, 240, 294-296: the dtype of df['target'] selects the branch.
Task(dtype) ==
    IF dtype = "int" THEN "Classification"
    ELSE IF dtype = "float" THEN "Regression"
    ELSE "undetermined"

\* Line 176: df['target'].value_counts(), for one class.
ValueCount(target, c) == Cardinality({i \in 1..Len(target) : target[i].y = c})

\* A filter that also drops the classes with exactly n_folds samples.
ClassesToDropInclusive(target, n_folds) ==
    {c \in {target[i].y : i \in 1..Len(target)} : ValueCount(target, c) <= n_folds}

\* Line 177: counts[counts < self.n_folds].index
ClassesToDrop(target, n_folds) ==
    {c \in {target[i].y : i \in 1..Len(target)} : ValueCount(target, c) < n_folds}

\* Lines 176-179 (Classification) and 244 (Regression): row labels to drop.
IndexesToDrop(task, target, n_folds) ==
    IF task = "Classification"
    THEN LET classes_to_drop == ClassesToDrop(target, n_folds)
         IN  {target[i].idx : i \in {j \in 1..Len(target) :
                                       target[j].y \in classes_to_drop}}
    ELSE {}

\* DataFrame.drop / Series.drop on row labels (lines 413-414).
DropTrain(train, labels) ==
    LET Keep(l) == l \notin labels IN SelectSeq(train, Keep)

DropTarget(target, labels) ==
    LET Keep(r) == r.idx \notin labels IN SelectSeq(target, Keep)

\* Lines 181-183 and 245-247.
Splitter(task) == IF task = "Classification" THEN "StratifiedKFold" ELSE "KFold"

\* Lines 187 and 251.
Estimator(task) == IF task = "Classification" THEN "Classifier" ELSE "Regressor"

\* Lines 191-197 and 255-261: fs is not None.
FsActive(params) ==
    /\ ~params.none
    /\ \E p \in DOMAIN params.kv : StartsWith(p, T_fs \o UU)

\* Lines 201-208 and 265-272: the keys of STCK.
STCK(params) ==
    IF params.none THEN {}
    ELSE {SplitHead(p) : p \in {q \in DOMAIN params.kv : StartsWith(q, T_stck)}}

FsClass(task) ==
    IF task = "Classification" THEN "Clf_feature_selector" ELSE "Reg_feature_selector"

StckClass(task) ==
    IF task = "Classification" THEN "StackingClassifier" ELSE "StackingRegressor"

(***************************************************************************)
(* evaluate: scorer resolution (lines 210-234 and 274-292)                 *)
(***************************************************************************)

\* Values of the scoring attribute that are not of type str: None, the
\* scorer object built by make_scorer at line 219, a user callable.
None == "<None>"
AucScorer == "<make_scorer(roc_auc_score, needs_proba)>"
UserCallable == "<callable>"

IsStr(scoring) == scoring \notin {None, AucScorer, UserCallable}

ClfScorings == {"accuracy", "roc_auc", "f1", "log_loss", "precision", "recall"}
RegScorings == {"mean_absolute_error", "mean_squared_error",
                "median_absolute_error", "r2"}

DefaultScoring(task) ==
    IF task = "Classification" THEN "log_loss" ELSE "mean_squared_error"

Recognised(task) == IF task = "Classification" THEN ClfScorings ELSE RegScorings

\* The value of self.scoring, the auc flag and the warning after the block.
ResolveScoring(task, scoring) ==
    IF scoring = None
    THEN [scoring |-> DefaultScoring(task), auc |-> FALSE, warned |-> FALSE]
    ELSE IF task = "Classification" /\ scoring = "roc_auc"
    THEN [scoring |-> AucScorer, auc |-> TRUE, warned |-> FALSE]
    ELSE IF IsStr(scoring) /\ scoring \notin Recognised(task)
    THEN [scoring |-> DefaultScoring(task), auc |-> FALSE, warned |-> TRUE]
    ELSE [scoring |-> scoring, auc |-> FALSE, warned |-> FALSE]

(***************************************************************************)
(* evaluate: pipeline and caching (lines 302-346)                          *)
(***************************************************************************)

\* A caching decision that forgets the stacking layers.
CacheNoStacking(params) ==
    \/ /\ ~params.none
       /\ K_ce_strategy \in DOMAIN params.kv
       /\ params.kv[K_ce_strategy] = "entity_embedding"
    \/ /\ FsActive(params)
       /\ K_fs_strategy \in DOMAIN params.kv
       /\ params.kv[K_fs_strategy] # "variance"

\* Lines 306-329: cache.
Cache(params) ==
    \/ /\ ~params.none
       /\ K_ce_strategy \in DOMAIN params.kv
       /\ params.kv[K_ce_strategy] = "entity_embedding"
    \/ /\ FsActive(params)
       /\ K_fs_strategy \in DOMAIN params.kv
       /\ params.kv[K_fs_strategy] # "variance"
    \/ Cardinality(STCK(params)) # 0

Stage(tag, cls) == [tag |-> tag, cls |-> cls]

\* Lines 338-339: one stage per key of STCK, in np.sort order.
StackingStages(task, params) ==
    LET tags == NpSort(STCK(params))
    IN  [i \in 1..Len(tags) |-> Stage(tags[i], StckClass(task))]

\* Lines 302 and 333-341: pipe.
Pipe(task, params) ==
    <<Stage(T_ne, "NA_encoder"), Stage(T_ce, "Categorical_encoder")>>
    \o (IF FsActive(params) THEN <<Stage(T_fs, FsClass(task))>> ELSE <<>>)
    \o StackingStages(task, params)
    \o <<Stage(T_est, Estimator(task))>>

\* Lines 343-346: the memory argument of Pipeline (self.to_path or absent).
to_path == "save"
Memory(params) == IF Cache(params) THEN to_path ELSE None

Tags(pipe) == [i \in 1..Len(pipe) |-> pipe[i].tag]

\* A set_params that never fails.
SetParamsAlways(pipe, params, stage_ok) == TRUE

\* Lines 356-365: set_params. Pipeline.set_params resolves the text of each
\* key before "__" against the step names and hands the rest to the step;
\* stage_ok is the verdict of the steps' own set_params, which are asked
\* only when a key holds "__".
SetParams(pipe, params, stage_ok) ==
    \/ params.none
    \/ /\ \A p \in DOMAIN params.kv :
              \E i \in 1..Len(pipe) : pipe[i].tag = SplitHead(p)
       /\ stage_ok \/ \A p \in DOMAIN params.kv : Find(p, 1) = 0

(***************************************************************************)
(* evaluate: cross-validation and the whole call (lines 159-453)           *)
(***************************************************************************)

\* np.inf (lines 421-422, 428).
Inf == 1000000
NegInf == 0 - Inf

RECURSIVE Sum(_)
Sum(seq) == IF seq = <<>> THEN 0 ELSE Head(seq) + Sum(Tail(seq))

\* Line 417: np.mean(scores).
Mean(scores) == Sum(scores) \div Len(scores)

\* A failure path that reports one score fewer than there are folds.
FailedScoresShort(n_folds) == [i \in 1..(n_folds - 1) |-> NegInf]

\* Line 421: [-np.inf for _ in range(self.n_folds)].
FailedScores(n_folds) == [i \in 1..n_folds |-> NegInf]

\* cross_val_score raises when the caller's fit or scoring raises (cv.raises)
\* and when the splitter cannot cut n_folds folds out of the rows left.
CvRaises(cv, X, n_folds) == cv.raises \/ Len(X) < n_folds

\* The call as far as nothing of the pipeline exists yet (lines 159-296).
NoPipeline == <<>>

\* evaluate(params, df) on an optimiser whose attributes are scoring0 and
\* n_folds. stage_ok and cv are the verdicts of the collaborators: the
\* stages' set_params and cross_val_score. The result records what the call
\* did and the value of self.scoring when it ends (scoring_after).
EvaluateCall(scoring0, n_folds, params, df, stage_ok, cv) ==
    LET task == Task(df.dtype)
        base == [params |-> params, scoring_before |-> scoring0,
                 n_folds |-> n_folds, task |-> task, stage_ok |-> stage_ok]
    IN
    IF task = "undetermined"
    THEN \* lines 294-296
         base @@ [raised |-> "ValueError: task", built |-> FALSE,
                  pipe |-> NoPipeline, memory |-> None, applied |-> FALSE,
                  cv_ran |-> FALSE, cv_failed |-> FALSE,
                  cv_X |-> <<>>, cv_y |-> <<>>, cv_scoring |-> None,
                  cv_splitter |-> None, scores |-> <<>>, score |-> 0,
                  warned |-> FALSE, auc |-> FALSE, scoring_after |-> scoring0]
    ELSE
    LET drop == IndexesToDrop(task, df.target, n_folds)
        res == ResolveScoring(task, scoring0)
        pipe == Pipe(task, params)
        built == base @@ [built |-> TRUE, pipe |-> pipe,
                          memory |-> Memory(params),
                          warned |-> res.warned, auc |-> res.auc]
    IN
    IF ~SetParams(pipe, params, stage_ok)
    THEN \* lines 364-365 and 424-426: self.scoring stays as resolved
         built @@ [raised |-> "ValueError: params", applied |-> FALSE,
                   cv_ran |-> FALSE, cv_failed |-> FALSE,
                   cv_X |-> <<>>, cv_y |-> <<>>, cv_scoring |-> None,
                   cv_splitter |-> None, scores |-> <<>>, score |-> 0,
                   scoring_after |-> res.scoring]
    ELSE
    LET X == DropTrain(df.train, drop)
        y == DropTarget(df.target, drop)
        failed == CvRaises(cv, X, n_folds)
        scores == IF failed THEN FailedScores(n_folds)
                  ELSE [i \in 1..n_folds |-> cv.s]
        score == IF failed THEN NegInf ELSE Mean(scores)
    IN  \* lines 409-453
        built @@ [raised |-> "no", applied |-> TRUE,
                  cv_ran |-> TRUE, cv_failed |-> failed,
                  cv_X |-> X, cv_y |-> y, cv_scoring |-> res.scoring,
                  cv_splitter |-> Splitter(task), scores |-> scores,
                  score |-> score,
                  scoring_after |-> IF res.auc THEN "roc_auc" ELSE res.scoring]

(***************************************************************************)
(* optimise: space construction, fmin, back-translation (lines 520-592)    *)
(***************************************************************************)

Max(S) == CHOOSE x \in S : \A y \in S : x >= y

Elems(seq) == {seq[i] : i \in 1..Len(seq)}

\* Python's zero-based seq[v].
PyIndex(seq, v) == seq[v + 1]

\* An emptiness test that only knows None.
SpaceIsNone(space) == space.none

\* Lines 524 and 532: space is None or len(space) == 0.
SpaceIsEmpty(space) == space.none \/ DOMAIN space.kv = {}

\* A validation that only knows the missing value list.
MalformedMissingOnly(space) ==
    {p \in DOMAIN space.kv : "space" \notin DOMAIN space.kv[p]}

\* Lines 544-562: the entries for which a ValueError is raised.
Malformed(space) ==
    {p \in DOMAIN space.kv :
        \/ "space" \notin DOMAIN space.kv[p]
        \/ /\ "search" \in DOMAIN space.kv[p]
           /\ space.kv[p].search \notin {"uniform", "choice"}}

\* Lines 550-565: hp.uniform between the sorted extremes, else hp.choice.
HyperSpace(space) ==
    [p \in DOMAIN space.kv |->
        IF "search" \in DOMAIN space.kv[p] /\ space.kv[p].search = "uniform"
        THEN [kind |-> "uniform",
              lo |-> Min(Elems(space.kv[p].space)),
              hi |-> Max(Elems(space.kv[p].space))]
        ELSE [kind |-> "choice", options |-> space.kv[p].space]]

\* The vectors the search primitive can propose, in its internal form: an
\* index for hp.choice, a value of the interval for hp.uniform (the integer
\* points of the interval stand for its reals).
Range(h) == IF h.kind = "uniform" THEN h.lo..h.hi ELSE 0..(Len(h.options) - 1)

Vectors(hs) ==
    {v \in [DOMAIN hs -> UNION {Range(hs[p]) : p \in DOMAIN hs}] :
        \A p \in DOMAIN hs : v[p] \in Range(hs[p])}

\* What the objective receives for a vector: hp.choice hands over the option.
Sampled(hs, v) ==
    Dict([p \in DOMAIN hs |->
            IF hs[p].kind = "uniform" THEN v[p] ELSE PyIndex(hs[p].options, v[p])])

\* Line 520: hyperopt_objective.
Loss(score) == 0 - score

\* A loop that stops one trial early.
FminDoneEarly(evals, max_evals) == evals + 1 >= max_evals

\* Line 570: fmin stops after max_evals trials.
FminDone(evals, max_evals) == evals >= max_evals

\* A translation that indexes every key, uniform ones too.
TranslateAll(space, best) ==
    [p \in DOMAIN best |->
        IF best[p] \in 0..(Len(space.kv[p].space) - 1)
        THEN PyIndex(space.kv[p].space, best[p]) ELSE best[p]]

\* Lines 574-581: best_params after the loop over its items.
Translate(space, best) ==
    [p \in DOMAIN best |->
        IF "search" \in DOMAIN space.kv[p]
        THEN IF space.kv[p].search = "choice"
             THEN PyIndex(space.kv[p].space, best[p])
             ELSE best[p]
        ELSE PyIndex(space.kv[p].space, best[p])]

(***************************************************************************)
(* Inputs                                                                  *)
(***************************************************************************)

\* Largest max_evals handed to optimise.
MaxEvals == 2

\* Values of the constructor's n_folds (2 is the default, line 72).
NFolds == {2, 3}

\* Values of the constructor's scoring (None is the default, line 71).
Scorings == {None, "roc_auc", "accuracy", "r2", "unknown_metric"}

\* Candidates handed to evaluate by a caller.
Candidates ==
    { NoneParams,
      Dict(<<>>),
      Dict(K_ce_strategy :> "label_encoding"),
      Dict(K_ce_strategy :> "entity_embedding"),
      Dict(K_fs_strategy :> "variance"),
      Dict((K_fs_strategy :> "l1") @@ (K_est_max_depth :> 3)),
      Dict(K_fs_threshold :> 1),
      Dict(K_fs_threshold_1 :> 1),
      Dict((K_stck2_copy :> 1) @@ (K_stck10_copy :> 1)
           @@ (K_stck1_copy :> 1) @@ (K_stck1_level :> 1)),
      Dict((K_ce_strategy :> "label_encoding") @@ (K_fs_strategy :> "variance")
           @@ (K_stck2_copy :> 1) @@ (K_stck1_copy :> 1)),
      Dict(K_stck :> 1),
      Dict(K_xgb_max_depth :> 3) }

Row(idx, y) == [idx |-> idx, y |-> y]

\* The datasets df = {"train": ..., "target": ...}: train is given by its row
\* labels, target by its rows (label, value); dtype is df['target'].dtype.
DF(name) ==
    CASE name = "clf_6" ->
           [dtype |-> "int", train |-> <<15, 14, 13, 12, 11, 10>>,
            target |-> <<Row(15, 0), Row(14, 1), Row(13, 0),
                         Row(12, 2), Row(11, 1), Row(10, 0)>>]
      [] name = "clf_100" ->
           [dtype |-> "int", train |-> [i \in 1..100 |-> i - 1],
            target |-> [i \in 1..100 |-> Row(i - 1, IF i <= 90 THEN 0 ELSE 1)]]
      [] name = "reg" ->
           [dtype |-> "float", train |-> <<0, 1, 2>>,
            target |-> <<Row(0, 5), Row(1, 5), Row(2, 7)>>]
      [] name = "str" ->
           [dtype |-> "object", train |-> <<0, 1, 2>>,
            target |-> <<Row(0, "a"), Row(1, "b"), Row(2, "a")>>]

Datasets == {"clf_6", "reg", "str"}

\* The datasets and fold counts of the 100-row scenario.
ScenarioDatasets == {"clf_6", "clf_100", "reg"}
ScenarioFolds == {2, 20}

\* The datasets handed to optimise.
OptimiseDatasets == {"clf_6", "reg", "str"}

\* What cross_val_score can do: raise, or score every fold.
CvOutcomes == {[raises |-> TRUE, s |-> 0],
               [raises |-> FALSE, s |-> 0 - 2],
               [raises |-> FALSE, s |-> 0 - 1]}

\* What the collaborators of one evaluate call can do: a stage refuses its
\* parameter (cross-validation is then never asked), or the stages accept
\* and cross-validation does one of the above.
Collaborators ==
    {[stage_ok |-> FALSE, cv |-> [raises |-> TRUE, s |-> 0]]}
    \cup {[stage_ok |-> TRUE, cv |-> c] : c \in CvOutcomes}

NoneSpace == [none |-> TRUE, kv |-> <<>>]

\* The search spaces handed to optimise.
SpaceOf(name) ==
    CASE name = "none" -> NoneSpace
      [] name = "empty" -> Dict(<<>>)
      [] name = "depth" ->
           Dict(K_est_max_depth :> [search |-> "choice", space |-> <<3, 5, 7>>])
      [] name = "mixed" ->
           Dict((K_ce_strategy :> [space |-> <<"label_encoding", "entity_embedding">>])
                @@ (K_est_max_depth :> [search |-> "uniform", space |-> <<1, 0>>]))
      [] name = "fs_stck" ->
           Dict((K_fs_strategy :> [search |-> "choice", space |-> <<"variance", "l1">>])
                @@ (K_stck1_copy :> [space |-> <<1, 0>>]))
      [] name = "xgb" ->
           Dict(K_xgb_max_depth :> [search |-> "choice", space |-> <<3, 5>>])
      [] name = "fs_1" ->
           Dict(K_fs_threshold_1 :> [space |-> <<1, 2>>])
      [] name = "no_values" ->
           Dict(K_est_max_depth :> [search |-> "choice"])
      [] name = "grid" ->
           Dict(K_est_max_depth :> [search |-> "grid", space |-> <<3, 5>>])
      [] name = "mixed_grid" ->
           Dict((K_ce_strategy :> [space |-> <<"label_encoding", "entity_embedding">>])
                @@ (K_est_max_depth :> [search |-> "grid", space |-> <<3, 5>>]))

Spaces == {"none", "empty", "depth", "mixed", "fs_stck", "xgb", "fs_1",
           "no_values", "grid", "mixed_grid"}

(***************************************************************************)
(* State                                                                   *)
(***************************************************************************)

VARIABLES
    scoring,     \* self.scoring
    n_folds,     \* self.n_folds
    configured,  \* the scoring last given by the caller (__init__, set_params)
    last,        \* what the most recent evaluate call did
    opt          \* the most recent optimise call

vars == <<scoring, n_folds, configured, last, opt>>

NoCall ==
    [params |-> NoneParams, scoring_before |-> None, n_folds |-> 0,
     task |-> "undetermined", stage_ok |-> TRUE,
     raised |-> "no call", built |-> FALSE,
     pipe |-> NoPipeline, memory |-> None, applied |-> FALSE,
     cv_ran |-> FALSE, cv_failed |-> FALSE, cv_X |-> <<>>, cv_y |-> <<>>,
     cv_scoring |-> None, cv_splitter |-> None, scores |-> <<>>, score |-> 0,
     warned |-> FALSE, auc |-> FALSE, scoring_after |-> None, df |-> "none"]

NoBest == [has |-> FALSE, vec |-> <<>>, params |-> NoneParams, loss |-> 0]

NoOptimise ==
    [phase |-> "idle", space |-> "none", df |-> "none", max_evals |-> 0,
     evals |-> 0, best |-> NoBest, result |-> <<>>, error |-> "no"]

\* Lines 71-81: __init__.
Init ==
    /\ scoring \in Scorings
    /\ configured = scoring
    /\ n_folds \in NFolds
    /\ last = NoCall
    /\ opt = NoOptimise

\* Lines 106-453: evaluate(params, df) called by the user with one of dfs.
EvaluateOn(dfs) ==
    /\ \E params \in Candidates, d \in dfs, c \in Collaborators :
          LET r == EvaluateCall(scoring, n_folds, params, DF(d),
                                c.stage_ok, c.cv)
          IN  /\ last' = r @@ [df |-> d]
              /\ scoring' = r.scoring_after
    /\ UNCHANGED <<n_folds, configured, opt>>

\* Lines 520-565: optimise(space, df, max_evals) up to the call of fmin.
Optimise ==
    /\ opt.phase # "fmin"
    /\ \E sp \in Spaces, d \in OptimiseDatasets, max_evals \in 1..MaxEvals :
          LET call == [NoOptimise EXCEPT !.space = sp, !.df = d,
                                         !.max_evals = max_evals]
          IN  opt' =
                IF SpaceIsEmpty(SpaceOf(sp))
                THEN [call EXCEPT !.phase = "returned"]
                ELSE IF Malformed(SpaceOf(sp)) # {}
                THEN [call EXCEPT !.phase = "raised",
                                  !.error = "ValueError: space"]
                ELSE [call EXCEPT !.phase = "fmin"]
    /\ last' = NoCall
    /\ UNCHANGED <<scoring, n_folds, configured>>

\* Lines 567-570 with 520: one trial of fmin. The primitive proposes a vector,
\* the objective evaluates it, the loss goes back to the primitive, which
\* keeps the vector of the smallest loss (the first one on a tie). An error
\* of evaluate leaves fmin and optimise.
FminTrial ==
    /\ opt.phase = "fmin"
    /\ ~FminDone(opt.evals, opt.max_evals)
    /\ LET hs == HyperSpace(SpaceOf(opt.space))
       IN  \E v \in Vectors(hs), c \in Collaborators :
             LET params == Sampled(hs, v)
                 r == EvaluateCall(scoring, n_folds, params, DF(opt.df),
                                   c.stage_ok, c.cv)
                 better == ~opt.best.has \/ Loss(r.score) < opt.best.loss
             IN  /\ last' = r @@ [df |-> opt.df]
                 /\ scoring' = r.scoring_after
                 /\ opt' =
                      IF r.raised # "no"
                      THEN [opt EXCEPT !.phase = "raised",
                                       !.evals = opt.evals + 1,
                                       !.error = r.raised]
                      ELSE [opt EXCEPT
                              !.evals = opt.evals + 1,
                              !.best = IF better
                                       THEN [has |-> TRUE, vec |-> v,
                                             params |-> params,
                                             loss |-> Loss(r.score)]
                                       ELSE opt.best]
    /\ UNCHANGED <<n_folds, configured>>

\* Lines 570-592: fmin returns the best vector, optimise translates it.
FminReturn ==
    /\ opt.phase = "fmin"
    /\ FminDone(opt.evals, opt.max_evals)
    /\ opt' = [opt EXCEPT !.phase = "returned",
                          !.result = Translate(SpaceOf(opt.space), opt.best.vec)]
    /\ UNCHANGED <<scoring, n_folds, configured, last>>

Evaluate == EvaluateOn(Datasets)

\* evaluate called by the user, any number of times on one optimiser.
Next == Evaluate

Spec == Init /\ [][Next]_vars

\* optimise called by the user, any number of times on one optimiser.
InitOptimise ==
    /\ scoring \in {None, "roc_auc"}
    /\ configured = scoring
    /\ n_folds \in NFolds
    /\ last = NoCall
    /\ opt = NoOptimise

EvaluateScenario == EvaluateOn(ScenarioDatasets)

\* evaluate called by the user on the datasets of the 100-row scenario.
InitScenario ==
    /\ scoring = None
    /\ configured = scoring
    /\ n_folds \in ScenarioFolds
    /\ last = NoCall
    /\ opt = NoOptimise

NextScenario == EvaluateScenario

SpecScenario == InitScenario /\ [][NextScenario]_vars

NextOptimise == Optimise \/ FminTrial \/ FminReturn

SpecOptimise == InitOptimise /\ [][NextOptimise]_vars

(***************************************************************************)
(* Properties of evaluate                                                  *)
(***************************************************************************)

\* The keys of the candidate of the most recent evaluate call.
LastKeys == IF last.params.none THEN {} ELSE DOMAIN last.params.kv

CachingDecision ==
    last.built =>
        LET expensive ==
                \/ /\ K_ce_strategy \in LastKeys
                   /\ last.params.kv[K_ce_strategy] = "entity_embedding"
                \/ /\ K_fs_strategy \in LastKeys
                   /\ last.params.kv[K_fs_strategy] # "variance"
                \/ \E p \in LastKeys : StartsWith(p, T_stck)
        IN  /\ expensive <=> last.memory = to_path
            /\ ~expensive <=> last.memory = None

\* A call whose only reason to cache is its stacking layers.
CachingDecisionWitness ==
    /\ last.built
    /\ last.memory = to_path
    /\ K_stck1_copy \in LastKeys
    /\ K_fs_strategy \in LastKeys
    /\ last.params.kv[K_fs_strategy] = "variance"
    /\ last.params.kv[K_ce_strategy] = "label_encoding"

(***************************************************************************)
(* Properties of optimise                                                  *)
(***************************************************************************)

\* The optimise call was given a search space with at least one key.
Searching == opt.phase # "idle" /\ opt.space \notin {"none", "empty"}

\* C3: optimise with a non-empty, well-formed space and max_evals = N never
\* runs more than N trials, each trial is one evaluate call, and when it
\* returns the best parameters evaluate has been called exactly N times.
BudgetExact ==
    Searching =>
        /\ opt.evals <= opt.max_evals
        /\ opt.phase = "returned" => opt.evals = opt.max_evals /\ opt.best.has
        /\ opt.evals > 0 => last.raised # "no call"

\* A search that returned after more than one trial.
BudgetExactWitness ==
    /\ Searching
    /\ opt.phase = "returned"
    /\ opt.evals > 1
    /\ opt.evals = opt.max_evals

\* C4: optimise with a space that is None or has no keys returns an empty
\* mapping, raises nothing and never invokes evaluate.
EmptySpaceReturnsEmpty ==
    (opt.phase # "idle" /\ opt.space \in {"none", "empty"}) =>
        /\ opt.phase = "returned"
        /\ opt.result = <<>>
        /\ opt.error = "no"
        /\ opt.evals = 0
        /\ last = NoCall

\* optimise has returned for a dict without keys.
EmptySpaceWitness ==
    /\ opt.phase = "returned"
    /\ opt.space = "empty"
    /\ opt.result = <<>>

\* C5: in the mapping optimise returns, a key of strategy 'choice' (or of no
\* declared strategy) holds the element of its declared list at the index
\* the primitive returned, which is one of the declared values and the very
\* value the objective was given for that vector; a key of strategy
\* 'uniform' holds the primitive's value unchanged.
BackTranslation ==
    (Searching /\ opt.phase = "returned") =>
        /\ DOMAIN opt.result = DOMAIN SpaceOf(opt.space).kv
        /\ \A p \in DOMAIN opt.result :
              LET entry == SpaceOf(opt.space).kv[p]
                  v == opt.best.vec[p]
              IN  IF "search" \in DOMAIN entry /\ entry.search = "uniform"
                  THEN opt.result[p] = v
                  ELSE /\ opt.result[p] = entry.space[v + 1]
                       /\ opt.result[p] \in Elems(entry.space)
                       /\ opt.result[p] = opt.best.params.kv[p]

\* A returned mapping with a translated choice key (index 1 of an entry
\* that declares no strategy) beside a uniform key.
BackTranslationWitness ==
    /\ opt.phase = "returned"
    /\ opt.space = "mixed"
    /\ opt.best.vec[K_ce_strategy] = 1
    /\ opt.result[K_ce_strategy] = "entity_embedding"
    /\ opt.result[K_est_max_depth] = 1

\* C6: when cross-validation raises inside evaluate, evaluate raises
\* nothing: the mean score is -inf and the per-fold scores are n_folds times
\* -inf; an optimise loop around it is not left by an error.
CvFailureScored ==
    last.cv_failed =>
        /\ last.raised = "no"
        /\ last.applied
        /\ last.score = NegInf
        /\ Len(last.scores) = n_folds
        /\ \A i \in 1..Len(last.scores) : last.scores[i] = NegInf
        /\ opt.phase \in {"fmin", "returned"}

\* Two trials in a row failed in cross-validation and the search returned.
CvFailureWitness ==
    /\ last.cv_failed
    /\ opt.phase = "returned"
    /\ opt.evals > 1
    /\ opt.best.loss = Inf

\* The candidate of the most recent evaluate call cannot be applied: a key
\* names no stage of the assembled pipeline, or a stage refuses its part.
CannotApply ==
    /\ last.built
    /\ ~last.params.none
    /\ \/ ~last.stage_ok /\ \E p \in LastKeys : SplitHead(p) # p
       \/ \E p \in LastKeys : SplitHead(p) \notin Elems(Tags(last.pipe))

\* C7: when the candidate cannot be applied to the assembled pipeline,
\* evaluate raises, returns no score and runs no cross-validation; inside
\* optimise the error leaves optimise, it is not scored as a failed trial.
InvalidParamsRaise ==
    CannotApply =>
        /\ last.raised = "ValueError: params"
        /\ ~last.cv_ran
        /\ last.scores = <<>>
        /\ opt.phase = "raised"
        /\ opt.error = "ValueError: params"
        /\ ~last.cv_failed /\ last.score # NegInf

\* optimise was left by the error of a key with a single underscore.
InvalidParamsWitness ==
    /\ CannotApply
    /\ last.stage_ok
    /\ opt.phase = "raised"
    /\ opt.space = "fs_1"
    /\ Tags(last.pipe) = <<T_ne, T_ce, T_est>>

(***************************************************************************)
(* Properties of evaluate: rows, task, scorer                              *)
(***************************************************************************)

\* The rows of target whose class has at least k samples, in their order.
WellRepresented(target, k) ==
    LET Keep(r) == Cardinality({i \in 1..Len(target) : target[i].y = r.y}) >= k
    IN  SelectSeq(target, Keep)

\* C8: for a Classification target, cross-validation gets exactly the rows
\* whose class has at least n_folds samples, features and target alike (of
\* 100 rows with classes {0: 90, 1: 10} all 100 at n_folds = 2, the 90 of
\* class 0 at n_folds = 20); for a Regression target it gets every row.
ClassDeficiency ==
    last.cv_ran =>
        LET df == DF(last.df)
            kept == IF df.dtype = "int"
                    THEN WellRepresented(df.target, last.n_folds)
                    ELSE df.target
        IN  /\ last.cv_y = kept
            /\ last.cv_X = [i \in 1..Len(kept) |-> kept[i].idx]
            /\ df.dtype = "float" => last.cv_X = df.train
            /\ (last.df = "clf_100" /\ last.n_folds = 2) => Len(last.cv_X) = 100
            /\ (last.df = "clf_100" /\ last.n_folds = 20) =>
                  /\ Len(last.cv_X) = 90
                  /\ \A i \in 1..Len(last.cv_y) : last.cv_y[i].y = 0

\* The 100-row scenario at n_folds = 20: the ten rows of class 1 are gone.
ClassDeficiencyWitness ==
    /\ last.cv_ran
    /\ last.df = "clf_100"
    /\ last.n_folds = 20
    /\ Len(last.cv_y) = 90
    /\ ~last.cv_failed

\* C9: a target of dtype int makes the call a Classification (stratified
\* splitter, Classifier as estimator), a target of dtype float a Regression
\* (plain splitter, Regressor); with any other dtype evaluate raises before
\* a pipeline is built, a parameter applied or a fold scored.
TaskFromDtype ==
    last.raised # "no call" =>
        LET dtype == DF(last.df).dtype
            est == last.pipe[Len(last.pipe)].cls
        IN  /\ dtype = "int" =>
                  /\ last.built /\ est = "Classifier"
                  /\ last.cv_ran => last.cv_splitter = "StratifiedKFold"
            /\ dtype = "float" =>
                  /\ last.built /\ est = "Regressor"
                  /\ last.cv_ran => last.cv_splitter = "KFold"
            /\ dtype \notin {"int", "float"} =>
                  /\ last.raised = "ValueError: task"
                  /\ ~last.built /\ last.pipe = <<>>
                  /\ ~last.applied
                  /\ ~last.cv_ran /\ last.scores = <<>>

\* evaluate was left by the error of a target of strings.
TaskFromDtypeWitness ==
    /\ last.df = "str"
    /\ last.raised = "ValueError: task"
    /\ ~last.params.none

\* What a scorer computes: the object built for 'roc_auc' computes roc_auc.
MetricOf(s) == IF s = AucScorer THEN "roc_auc" ELSE s

\* C10: in every evaluate call, the scorer handed to cross-validation is the
\* one the optimiser was configured with, normalised for the task of this
\* call: its default for None and for a name the task does not know, the
\* name itself when the task knows it.
ScorerFromConfigured ==
    last.cv_ran =>
        LET known == IF last.task = "Classification"
                     THEN {"accuracy", "roc_auc", "f1", "log_loss",
                           "precision", "recall"}
                     ELSE {"mean_absolute_error", "mean_squared_error",
                           "median_absolute_error", "r2"}
            default == IF last.task = "Classification"
                       THEN "log_loss" ELSE "mean_squared_error"
        IN  MetricOf(last.cv_scoring) =
                IF configured \in known THEN configured ELSE default

(***************************************************************************)
(* Properties of optimise: the search space                                *)
(***************************************************************************)

\* C11: when a key of the space has no 'space' list or declares a 'search'
\* other than 'choice' and 'uniform', optimise raises the error of the
\* search space while it builds hyper_space: fmin is never started and
\* evaluate is never invoked.
InvalidSpaceRaises ==
    LET kv == SpaceOf(opt.space).kv
        bad == \E p \in DOMAIN kv :
                  \/ "space" \notin DOMAIN kv[p]
                  \/ /\ "search" \in DOMAIN kv[p]
                     /\ kv[p].search # "choice"
                     /\ kv[p].search # "uniform"
    IN  (opt.phase # "idle" /\ bad) =>
            /\ opt.phase = "raised"
            /\ opt.error = "ValueError: space"
            /\ opt.evals = 0
            /\ ~opt.best.has
            /\ last = NoCall

\* optimise raised for a space whose first key is well formed and whose
\* second key declares the strategy 'grid'.
InvalidSpaceWitness ==
    /\ opt.phase = "raised"
    /\ opt.space = "mixed_grid"
    /\ opt.error = "ValueError: space"
    /\ opt.max_evals > 1

(***************************************************************************)
(* Properties of evaluate: the scoring attribute                           *)
(***************************************************************************)

\* C12: an evaluate call on a Classification target that starts with
\* self.scoring = 'roc_auc' ends, by a score or by an error, with
\* self.scoring = 'roc_auc'; the scorer object is never left on the
\* optimiser.
AucRestored ==
    /\ (last.task = "Classification" /\ last.scoring_before = "roc_auc") =>
           /\ last.scoring_after = "roc_auc"
           /\ scoring = "roc_auc"
    /\ scoring # AucScorer

====
